---- MODULE Spec2Model ----
(***************************************************************************)
(* Model of src/main.py: the cinematic slides video generator.             *)
(*                                                                         *)
(* Strings are sequences of tokens.  A token is a chunk of non-blank text  *)
(* (with an identity and a length in characters), a single space, or the   *)
(* blank-line separator "\n\n".  len(), strip(), split("\n\n") and         *)
(* "\n\n".join() are modelled on that representation.                      *)
(***************************************************************************)
EXTENDS Integers, Sequences, FiniteSets, TLC

-----------------------------------------------------------------------------
(* Program constants *)

MIN_SLIDE_CHARS == 40
SLIDE_BODY_CHAR_APPROX == 700
RESPLIT_APPROX_CHARS == 1200
MAX_SLIDES == 18
PADDING_PER_SLIDE == 35            \* 0.35 s, in hundredths of a second
WATCHLIST == 1..15
FALLBACK_IMAGES == 1..3
INDICES == {101, 102}              \* ^NSEI, ^NSEBANK

(* Bounds of the model *)

MaxParas == 3                      \* pieces of an enumerated text
MaxLongParas == 20                 \* paragraphs of a uniform long text
MaxArticleParas == 2               \* paragraphs of an enumerated article
MaxRecursionDepth == 3             \* nested calls before RecursionError
TitleLen == 8                      \* characters of the topic name
ScriptLen == 61                    \* characters of the generated script

-----------------------------------------------------------------------------
(* Strings *)

Chunk(i, n) == [k |-> "p", id |-> i, len |-> n]
SP == [k |-> "ws", id |-> 0, len |-> 1]
SEP == [k |-> "sep", id |-> 0, len |-> 2]

IsSpace(t) == t.k # "p"

RECURSIVE StrLen(_)
StrLen(s) == IF s = <<>> THEN 0 ELSE Head(s).len + StrLen(Tail(s))

Truthy(s) == Len(s) > 0

RECURSIVE LStrip(_)
LStrip(s) == IF s # <<>> /\ IsSpace(Head(s)) THEN LStrip(Tail(s)) ELSE s

RECURSIVE RStrip(_)
RStrip(s) ==
    IF s # <<>> /\ IsSpace(s[Len(s)]) THEN RStrip(SubSeq(s, 1, Len(s) - 1)) ELSE s

Strip(s) == RStrip(LStrip(s))

\* s.split("\n\n"): the pieces between separators ("" gives one empty piece)
RECURSIVE SplitFrom(_, _, _, _)
SplitFrom(s, i, cur, acc) ==
    IF i > Len(s) THEN Append(acc, cur)
    ELSE IF s[i].k = "sep" THEN SplitFrom(s, i + 1, <<>>, Append(acc, cur))
    ELSE SplitFrom(s, i + 1, Append(cur, s[i]), acc)

SplitBlank(s) == SplitFrom(s, 1, <<>>, <<>>)

\* "\n\n".join(list)
RECURSIVE Join(_)
Join(list) ==
    IF list = <<>> THEN <<>>
    ELSE IF Len(list) = 1 THEN list[1]
    ELSE list[1] \o <<SEP>> \o Join(Tail(list))

\* [p.strip() for p in text.split("\n\n") if p.strip()]
RECURSIVE StripNonEmpty(_)
StripNonEmpty(pieces) ==
    IF pieces = <<>> THEN <<>>
    ELSE LET p == Strip(Head(pieces))
         IN  IF Truthy(p) THEN <<p>> \o StripNonEmpty(Tail(pieces))
             ELSE StripNonEmpty(Tail(pieces))

Paragraphs(text) == StripNonEmpty(SplitBlank(text))

-----------------------------------------------------------------------------
(* split_text_into_slides *)

NoTitle == <<>>
Slide(t, b) == [title |-> t, body |-> b]

\* the paragraph loop: accumulate paragraphs up to approx_chars per slide
RECURSIVE BuildSlides(_, _, _, _, _, _)
BuildSlides(paras, i, cur, cur_len, acc, approx) ==
    IF i > Len(paras)
    THEN IF cur # <<>> THEN Append(acc, Slide(NoTitle, Join(cur))) ELSE acc
    ELSE LET p == paras[i]
             p_len == StrLen(p)
         IN  IF cur_len + p_len + 2 <= approx
             THEN BuildSlides(paras, i + 1, Append(cur, p), cur_len + p_len + 2, acc, approx)
             ELSE BuildSlides(paras, i + 1, <<p>>, p_len + 2,
                              Append(acc, Slide(NoTitle, Join(cur))), approx)

\* MergeStep with a short slide that has no predecessor dropped, not kept
MergeStep_dropShort(acc, s) ==
    LET body == Strip(s.body)
        n == Len(acc)
    IN  IF StrLen(body) < MIN_SLIDE_CHARS
        THEN IF n > 0 /\ ~Truthy(acc[n].title)
             THEN [acc EXCEPT ![n].body = Strip(acc[n].body \o <<SEP>> \o body)]
             ELSE IF n > 0 THEN Append(acc, s)
             ELSE acc
        ELSE Append(acc, s)

\* one iteration of the merge loop on slide s, acc being the list cleaned so far
MergeStep(acc, s) ==
    LET body == Strip(s.body)
        n == Len(acc)
    IN  IF StrLen(body) < MIN_SLIDE_CHARS
        THEN IF n > 0 /\ ~Truthy(acc[n].title)
             THEN [acc EXCEPT ![n].body = Strip(acc[n].body \o <<SEP>> \o body)]
             ELSE IF n > 0 THEN Append(acc, s)
             ELSE IF Truthy(body) THEN Append(acc, s)
             ELSE acc
        ELSE Append(acc, s)

RECURSIVE MergeShort(_, _, _)
MergeShort(slides_, i, cleaned_) ==
    IF i > Len(slides_) THEN cleaned_
    ELSE MergeShort(slides_, i + 1, MergeStep(cleaned_, slides_[i]))

\* the body of split_text_into_slides up to the cap test
SplitOnce(text_, title_, approx) ==
    IF ~Truthy(text_) THEN <<>>
    ELSE LET paras == Paragraphs(text_)
             first == IF Truthy(title_) THEN <<Slide(title_, <<>>)>> ELSE <<>>
         IN  MergeShort(BuildSlides(paras, 1, <<>>, 0, first, approx), 1, <<>>)

-----------------------------------------------------------------------------
(* Inputs *)

TitleStr == <<Chunk(0, TitleLen)>>
ScriptStr == <<Chunk(1, ScriptLen)>>

\* a piece of text between blank lines: kind n > 0 is n characters of text,
\* 0 the empty piece, -1 a piece of spaces, -n text of n characters between spaces
Piece(i, kind) ==
    IF kind = 0 THEN <<>>
    ELSE IF kind = -1 THEN <<SP>>
    ELSE IF kind < 0 THEN <<SP, Chunk(i, -kind), SP>>
    ELSE <<Chunk(i, kind)>>

PieceKinds == {0, -1, 1 - MIN_SLIDE_CHARS, 10, MIN_SLIDE_CHARS, 650, 1201}

TextOf(kinds) == Join([i \in 1..Len(kinds) |-> Piece(i, kinds[i])])

KindSeqs(S, n) == UNION {[1..m -> S] : m \in 0..n}

\* n paragraphs of L characters each
Uniform(n, L) == TextOf([i \in 1..n |-> L])

SplitTexts ==
    {TextOf(ks) : ks \in KindSeqs(PieceKinds, MaxParas)}
      \cup {Uniform(n, L) : n \in (MaxLongParas - 3)..MaxLongParas, L \in {400, 601}}

SplitTitles == {NoTitle, TitleStr}

-----------------------------------------------------------------------------
(* State *)

VARIABLES
    pc,               \* position of main / of the split call
    scanned,          \* entries of the shuffled WATCHLIST already looked up
    indexCalled,      \* get_market_analysis_data has been called
    data,             \* the chosen topic
    text,             \* split_text_into_slides: argument text (article_text)
    title,            \* split_text_into_slides: argument title
    approx_chars,     \* split_text_into_slides: argument approx_chars
    depth,            \* nesting of split_text_into_slides calls
    cleaned,          \* value returned by split_text_into_slides
    slides,           \* main: slides
    urlIdx,           \* download_background: next entry of FALLBACK_IMAGES
    audio_paths,      \* main: audio_paths (0 is None, i+1 is slide_audio_i.mp3)
    inflight,         \* speech syntheses awaited and not yet completed
    filtered_slides,  \* main: filtered_slides
    filtered_audio,   \* main: filtered_audio
    filtered_src,     \* index in slides of each element of filtered_slides
    files,            \* files on disk: bg, audio (set of slide indices), video
    created,          \* kinds of file ever created by this run
    exitStatus,       \* "running", 0 or 1
    success,          \* "[SUCCESS] Video saved" was printed
    extFail,          \* some external call of the pipeline has failed
    lastOp            \* the last external operation and how often it was tried

vars == <<pc, scanned, indexCalled, data, text, title, approx_chars, depth,
          cleaned, slides, urlIdx, audio_paths, inflight, filtered_slides,
          filtered_audio, filtered_src, files, created, exitStatus, success,
          extFail, lastOp>>

splitVars == <<text, title, approx_chars, depth, cleaned>>
mainVars == <<scanned, indexCalled, data, slides, urlIdx, audio_paths, inflight,
              filtered_slides, filtered_audio, filtered_src, files, created,
              exitStatus, success, extFail, lastOp>>

NoData == [type |-> "none", ticker |-> 0, link |-> FALSE]
NoFiles == [bg |-> FALSE, audio |-> {}, video |-> 0]
NoOp == [op |-> "none", target |-> 0, attempts |-> 0, failed |-> FALSE, final |-> FALSE]

\* record an attempt of external operation o on target tg: attempts counts the
\* consecutive attempts of the same operation on the same target
Tried(o, tg, f, fin) ==
    [op |-> o, target |-> tg,
     attempts |-> IF lastOp.op = o /\ lastOp.target = tg THEN lastOp.attempts + 1 ELSE 1,
     failed |-> f, final |-> fin]

MainIdle ==
    /\ scanned = 0
    /\ indexCalled = FALSE
    /\ data = NoData
    /\ slides = <<>>
    /\ urlIdx = 1
    /\ audio_paths = <<>>
    /\ inflight = {}
    /\ filtered_slides = <<>>
    /\ filtered_audio = <<>>
    /\ filtered_src = <<>>
    /\ files = NoFiles
    /\ created = {}
    /\ exitStatus = "running"
    /\ success = FALSE
    /\ extFail = FALSE
    /\ lastOp = NoOp

-----------------------------------------------------------------------------
(* split_text_into_slides as a call: return, recurse, or exhaust the stack *)

SplitReturn ==
    /\ pc = "split"
    /\ LET c == SplitOnce(text, title, approx_chars)
       IN  /\ ~Truthy(text) \/ Len(c) <= MAX_SLIDES
           /\ cleaned' = c
    /\ pc' = "split_returned"
    /\ UNCHANGED <<text, title, approx_chars, depth>>
    /\ UNCHANGED mainVars

SplitRecurse ==
    /\ pc = "split"
    /\ Truthy(text)
    /\ Len(SplitOnce(text, title, approx_chars)) > MAX_SLIDES
    /\ depth < MaxRecursionDepth
    /\ approx_chars' = RESPLIT_APPROX_CHARS
    /\ depth' = depth + 1
    /\ UNCHANGED <<pc, text, title, cleaned>>
    /\ UNCHANGED mainVars

\* the recursive call repeats itself with the same arguments: RecursionError
SplitOverflow ==
    /\ pc = "split"
    /\ Truthy(text)
    /\ Len(SplitOnce(text, title, approx_chars)) > MAX_SLIDES
    /\ depth >= MaxRecursionDepth
    /\ pc' = "split_raised"
    /\ UNCHANGED splitVars
    /\ UNCHANGED mainVars

SplitInit ==
    /\ pc = "split"
    /\ text \in SplitTexts
    /\ title \in SplitTitles
    /\ approx_chars = SLIDE_BODY_CHAR_APPROX
    /\ depth = 0
    /\ cleaned = <<>>
    /\ MainIdle

SplitNext == SplitReturn \/ SplitRecurse \/ SplitOverflow

SplitSpec == SplitInit /\ [][SplitNext]_vars

-----------------------------------------------------------------------------
(* main: 1) pick topic *)

None == -1

\* the finally block of main: remove slide_audio_*.mp3 and temp_bg.jpg
Cleanup(f) == [f EXCEPT !.bg = FALSE, !.audio = {}]

\* sys.exit(1), from the try block or from the except handler
Exit1 ==
    /\ pc' = "done"
    /\ exitStatus' = 1
    /\ files' = Cleanup(files)

\* LookupRaises with the exception leaving the loop: no topic, the rest unscanned
LookupRaises_abort ==
    /\ pc = "scan"
    /\ scanned < Cardinality(WATCHLIST)
    /\ scanned' = scanned + 1
    /\ lastOp' = Tried("lookup", scanned + 1, TRUE, TRUE)
    /\ pc' = "index"
    /\ UNCHANGED <<indexCalled, data, slides, urlIdx, audio_paths, inflight,
                   filtered_slides, filtered_audio, filtered_src, files, created,
                   exitStatus, success, extFail>>
    /\ UNCHANGED splitVars

\* LookupRaises inside _retry_request: the same entry is looked up again,
\* and given up after the third failure
LookupRaises_retry ==
    /\ pc = "scan"
    /\ scanned < Cardinality(WATCHLIST)
    /\ LET t == Tried("lookup", scanned + 1, TRUE, FALSE)
       IN  /\ lastOp' = [t EXCEPT !.final = (t.attempts >= 3)]
           /\ scanned' = IF t.attempts >= 3 THEN scanned + 1 ELSE scanned
    /\ pc' = IF scanned' = Cardinality(WATCHLIST) THEN "index" ELSE "scan"
    /\ UNCHANGED <<indexCalled, data, slides, urlIdx, audio_paths, inflight,
                   filtered_slides, filtered_audio, filtered_src, files, created,
                   exitStatus, success, extFail>>
    /\ UNCHANGED splitVars

\* yf.Ticker(t) raises for the next entry: warn, go on with the next one
LookupRaises ==
    /\ pc = "scan"
    /\ scanned < Cardinality(WATCHLIST)
    /\ scanned' = scanned + 1
    /\ lastOp' = Tried("lookup", scanned + 1, TRUE, TRUE)
    /\ pc' = IF scanned' = Cardinality(WATCHLIST) THEN "index" ELSE "scan"
    /\ UNCHANGED <<indexCalled, data, slides, urlIdx, audio_paths, inflight,
                   filtered_slides, filtered_audio, filtered_src, files, created,
                   exitStatus, success, extFail>>
    /\ UNCHANGED splitVars

\* the next entry has no news
LookupNoNews ==
    /\ pc = "scan"
    /\ scanned < Cardinality(WATCHLIST)
    /\ scanned' = scanned + 1
    /\ lastOp' = Tried("lookup", scanned + 1, FALSE, FALSE)
    /\ pc' = IF scanned' = Cardinality(WATCHLIST) THEN "index" ELSE "scan"
    /\ UNCHANGED <<indexCalled, data, slides, urlIdx, audio_paths, inflight,
                   filtered_slides, filtered_audio, filtered_src, files, created,
                   exitStatus, success, extFail>>
    /\ UNCHANGED splitVars

\* the next entry has a news item (with or without a link): it is the topic;
\* the ticker is named by its place in the shuffled WATCHLIST
LookupNews(link) ==
    /\ pc = "scan"
    /\ scanned < Cardinality(WATCHLIST)
    /\ scanned' = scanned + 1
    /\ lastOp' = Tried("lookup", scanned + 1, FALSE, FALSE)
    /\ data' = [type |-> "news", ticker |-> scanned + 1, link |-> link]
    /\ pc' = "fetch"
    /\ UNCHANGED <<indexCalled, slides, urlIdx, audio_paths, inflight,
                   filtered_slides, filtered_audio, filtered_src, files, created,
                   exitStatus, success, extFail>>
    /\ UNCHANGED splitVars

get_trending_stock ==
    \/ LookupRaises
    \/ LookupNoNews
    \/ \E link \in BOOLEAN : LookupNews(link)

MarketAnalysisOk(tar) ==
    /\ pc = "index"
    /\ indexCalled' = TRUE
    /\ lastOp' = Tried("index", tar, FALSE, FALSE)
    /\ data' = [type |-> "technical", ticker |-> tar, link |-> FALSE]
    /\ pc' = "fetch"
    /\ UNCHANGED <<scanned, slides, urlIdx, audio_paths, inflight,
                   filtered_slides, filtered_audio, filtered_src, files, created,
                   exitStatus, success, extFail>>
    /\ UNCHANGED splitVars

\* history fails or is too short: None, and main exits with "[FATAL] No data"
MarketAnalysisFails(tar) ==
    /\ pc = "index"
    /\ indexCalled' = TRUE
    /\ lastOp' = Tried("index", tar, TRUE, TRUE)
    /\ Exit1
    /\ UNCHANGED <<scanned, data, slides, urlIdx, audio_paths, inflight,
                   filtered_slides, filtered_audio, filtered_src, created,
                   success, extFail>>
    /\ UNCHANGED splitVars

get_market_analysis_data ==
    \E tar \in INDICES : MarketAnalysisOk(tar) \/ MarketAnalysisFails(tar)

-----------------------------------------------------------------------------
(* main: 2) fetch article text, 3) split into slides *)

\* what fetch_article_text can return: paragraphs joined by blank lines,
\* at most MAX_SLIDE_CHARS * 10 characters
ArticleLens == {10, MIN_SLIDE_CHARS, SLIDE_BODY_CHAR_APPROX - 5}

ArticleTexts ==
    {TextOf(ks) : ks \in (KindSeqs(ArticleLens, MaxArticleParas) \ {<<>>})}
      \cup {Uniform(MAX_SLIDES + 1, 601)}

CallSplit(t) ==
    /\ text' = t
    /\ title' = TitleStr
    /\ approx_chars' = SLIDE_BODY_CHAR_APPROX
    /\ depth' = 0
    /\ cleaned' = <<>>
    /\ pc' = "split"

\* no article link: the script is the text
FetchSkipped ==
    /\ pc = "fetch"
    /\ ~data.link
    /\ CallSplit(ScriptStr)
    /\ UNCHANGED mainVars

FetchFails ==
    /\ pc = "fetch"
    /\ data.link
    /\ lastOp' = Tried("fetch", 0, TRUE, TRUE)
    /\ extFail' = TRUE
    /\ CallSplit(ScriptStr)
    /\ UNCHANGED <<scanned, indexCalled, data, slides, urlIdx, audio_paths, inflight,
                   filtered_slides, filtered_audio, filtered_src, files, created,
                   exitStatus, success>>

FetchReturns(t) ==
    /\ pc = "fetch"
    /\ data.link
    /\ lastOp' = Tried("fetch", 0, FALSE, FALSE)
    /\ CallSplit(t)
    /\ UNCHANGED <<scanned, indexCalled, data, slides, urlIdx, audio_paths, inflight,
                   filtered_slides, filtered_audio, filtered_src, files, created,
                   exitStatus, success, extFail>>

fetch_article_text ==
    FetchSkipped \/ FetchFails \/ \E t \in ArticleTexts : FetchReturns(t)

\* slides = split_text_into_slides(...) or the one-slide fallback
AfterSplit ==
    /\ pc = "split_returned"
    /\ slides' = IF cleaned = <<>> THEN <<Slide(title, ScriptStr)>> ELSE cleaned
    /\ pc' = "bg"
    /\ UNCHANGED <<scanned, indexCalled, data, urlIdx, audio_paths, inflight,
                   filtered_slides, filtered_audio, filtered_src, files, created,
                   exitStatus, success, extFail, lastOp>>
    /\ UNCHANGED splitVars

\* RecursionError reaches main's except handler
SplitRaised ==
    /\ pc = "split_raised"
    /\ Exit1
    /\ UNCHANGED <<scanned, indexCalled, data, slides, urlIdx, audio_paths, inflight,
                   filtered_slides, filtered_audio, filtered_src, created,
                   success, extFail, lastOp>>
    /\ UNCHANGED splitVars

-----------------------------------------------------------------------------
(* main: 4) background image; the gradient overlay and the logo are values
   computed in memory and leave no state behind *)

\* requests.get of FALLBACK_IMAGES[urlIdx] gives an image: write it to temp_bg.jpg
DownloadOk ==
    /\ pc = "bg"
    /\ lastOp' = Tried("image", urlIdx, FALSE, FALSE)
    /\ files' = [files EXCEPT !.bg = TRUE]
    /\ created' = created \cup {"bg"}
    /\ pc' = "tts"
    /\ UNCHANGED <<scanned, indexCalled, data, slides, urlIdx, audio_paths, inflight,
                   filtered_slides, filtered_audio, filtered_src,
                   exitStatus, success, extFail>>
    /\ UNCHANGED splitVars

\* the request raises or gives no image: next URL, or the solid image after the last
DownloadFails ==
    /\ pc = "bg"
    /\ lastOp' = Tried("image", urlIdx, TRUE, TRUE)
    /\ extFail' = TRUE
    /\ IF urlIdx < Cardinality(FALLBACK_IMAGES)
       THEN /\ urlIdx' = urlIdx + 1
            /\ UNCHANGED <<pc, files, created>>
       ELSE /\ files' = [files EXCEPT !.bg = TRUE]
            /\ created' = created \cup {"bg"}
            /\ pc' = "tts"
            /\ UNCHANGED urlIdx
    /\ UNCHANGED <<scanned, indexCalled, data, slides, audio_paths, inflight,
                   filtered_slides, filtered_audio, filtered_src,
                   exitStatus, success>>
    /\ UNCHANGED splitVars

download_background == DownloadOk \/ DownloadFails

-----------------------------------------------------------------------------
(* main: 5) per-slide speech synthesis *)

TextToRead(s) == IF Truthy(s.title) THEN s.title ELSE s.body

\* SynthStart with the synthesis started as a task and not awaited
SynthStart_noAwait ==
    /\ pc = "tts"
    /\ Len(audio_paths) < Len(slides)
    /\ LET idx == Len(audio_paths)
       IN  /\ audio_paths' = Append(audio_paths, idx)
           /\ inflight' = inflight \cup {[idx |-> idx, fallback |-> FALSE]}
    /\ UNCHANGED <<pc, scanned, indexCalled, data, slides, urlIdx,
                   filtered_slides, filtered_audio, filtered_src, files, created,
                   exitStatus, success, extFail, lastOp>>
    /\ UNCHANGED splitVars

\* the loop reaches slide idx: nothing to read gives None, otherwise
\* synthesize_text_to_file(text_to_read, slide_audio_idx.mp3) is awaited
\* (the cap of text_to_read at MAX_SLIDE_CHARS changes only what is spoken)
SynthStart ==
    /\ pc = "tts"
    /\ Len(audio_paths) < Len(slides)
    /\ LET idx == Len(audio_paths)
       IN  IF ~Truthy(TextToRead(slides[idx + 1]))
           THEN /\ audio_paths' = Append(audio_paths, None)
                /\ UNCHANGED <<pc, inflight>>
           ELSE /\ inflight' = inflight \cup {[idx |-> idx, fallback |-> FALSE]}
                /\ pc' = "tts_await"
                /\ UNCHANGED audio_paths
    /\ UNCHANGED <<scanned, indexCalled, data, slides, urlIdx,
                   filtered_slides, filtered_audio, filtered_src, files, created,
                   exitStatus, success, extFail, lastOp>>
    /\ UNCHANGED splitVars

\* the awaited synthesis returns True
SynthOk ==
    /\ pc = "tts_await"
    /\ \E job \in inflight :
          /\ ~job.fallback
          /\ inflight' = inflight \ {job}
          /\ lastOp' = Tried("tts", job.idx, FALSE, FALSE)
          /\ files' = [files EXCEPT !.audio = @ \cup {job.idx}]
          /\ audio_paths' = Append(audio_paths, job.idx)
    /\ created' = created \cup {"audio"}
    /\ pc' = "tts"
    /\ UNCHANGED <<scanned, indexCalled, data, slides, urlIdx,
                   filtered_slides, filtered_audio, filtered_src,
                   exitStatus, success, extFail>>
    /\ UNCHANGED splitVars

\* it returns False (partial: comm.save had already created the file):
\* the fallback synthesize_text_to_file(".", same path) is awaited
SynthFails(partial) ==
    /\ pc = "tts_await"
    /\ \E job \in inflight :
          /\ ~job.fallback
          /\ inflight' = (inflight \ {job}) \cup {[idx |-> job.idx, fallback |-> TRUE]}
          /\ lastOp' = Tried("tts", job.idx, TRUE, FALSE)
          /\ files' = IF partial THEN [files EXCEPT !.audio = @ \cup {job.idx}] ELSE files
    /\ created' = IF partial THEN created \cup {"audio"} ELSE created
    /\ extFail' = TRUE
    /\ pc' = "tts_fb_await"
    /\ UNCHANGED <<scanned, indexCalled, data, slides, urlIdx, audio_paths,
                   filtered_slides, filtered_audio, filtered_src,
                   exitStatus, success>>
    /\ UNCHANGED splitVars

FallbackOk ==
    /\ pc = "tts_fb_await"
    /\ \E job \in inflight :
          /\ job.fallback
          /\ inflight' = inflight \ {job}
          /\ lastOp' = Tried("tts", job.idx, FALSE, FALSE)
          /\ files' = [files EXCEPT !.audio = @ \cup {job.idx}]
          /\ audio_paths' = Append(audio_paths, job.idx)
    /\ created' = created \cup {"audio"}
    /\ pc' = "tts"
    /\ UNCHANGED <<scanned, indexCalled, data, slides, urlIdx,
                   filtered_slides, filtered_audio, filtered_src,
                   exitStatus, success, extFail>>
    /\ UNCHANGED splitVars

\* the fallback fails too: audio_path = None
FallbackFails(partial) ==
    /\ pc = "tts_fb_await"
    /\ \E job \in inflight :
          /\ job.fallback
          /\ inflight' = inflight \ {job}
          /\ lastOp' = Tried("tts", job.idx, TRUE, TRUE)
          /\ files' = IF partial THEN [files EXCEPT !.audio = @ \cup {job.idx}] ELSE files
    /\ created' = IF partial THEN created \cup {"audio"} ELSE created
    /\ audio_paths' = Append(audio_paths, None)
    /\ pc' = "tts"
    /\ UNCHANGED <<scanned, indexCalled, data, slides, urlIdx,
                   filtered_slides, filtered_audio, filtered_src,
                   exitStatus, success, extFail>>
    /\ UNCHANGED splitVars

synthesize_text_to_file ==
    \/ SynthOk
    \/ FallbackOk
    \/ \E partial \in BOOLEAN : SynthFails(partial) \/ FallbackFails(partial)

-----------------------------------------------------------------------------
(* main: 6) filter slides without audio or extremely short *)

NoFiltered == [fs |-> <<>>, fa |-> <<>>, src |-> <<>>]

\* Keep with the audio appended only when there is one
Keep_dropNone(acc, s, a, i) ==
    [fs |-> Append(acc.fs, s),
     fa |-> IF a = None THEN acc.fa ELSE Append(acc.fa, a),
     src |-> Append(acc.src, i)]

Keep(acc, s, a, i) ==
    [fs |-> Append(acc.fs, s), fa |-> Append(acc.fa, a), src |-> Append(acc.src, i)]

\* FilterStep without the length test
FilterStep_keepShort(acc, s, a, i) == Keep(acc, s, a, i)

\* one iteration of the filter loop on the pair (s, a) = (slides[i], audio_paths[i])
FilterStep(acc, s, a, i) ==
    IF Truthy(s.title) THEN Keep(acc, s, a, i)
    ELSE LET body == Strip(s.body)
             n == Len(acc.fs)
         IN  IF StrLen(body) < MIN_SLIDE_CHARS
             THEN IF n > 0 /\ ~Truthy(acc.fs[n].title)
                  THEN [acc EXCEPT !.fs[n].body = Strip(acc.fs[n].body \o <<SEP>> \o body)]
                  ELSE acc
             ELSE Keep(acc, s, a, i)

RECURSIVE FilterSlides(_, _, _, _)
FilterSlides(ss, aa, i, acc) ==
    IF i > Len(ss) \/ i > Len(aa) THEN acc
    ELSE FilterSlides(ss, aa, i + 1, FilterStep(acc, ss[i], aa[i], i))

\* the slide dicts are shared: a merge into prev changes the element of slides too
Shared(ss, f) ==
    [k \in 1..Len(ss) |->
        IF \E j \in 1..Len(f.src) : f.src[j] = k
        THEN f.fs[CHOOSE j \in 1..Len(f.src) : f.src[j] = k]
        ELSE ss[k]]

FilterKeeps ==
    /\ pc = "tts"
    /\ Len(audio_paths) = Len(slides)
    /\ LET f == FilterSlides(slides, audio_paths, 1, NoFiltered)
       IN  /\ f.fs # <<>>
           /\ filtered_slides' = f.fs
           /\ filtered_audio' = f.fa
           /\ filtered_src' = f.src
           /\ slides' = Shared(slides, f)
    /\ pc' = "render"
    /\ UNCHANGED <<scanned, indexCalled, data, urlIdx, audio_paths, inflight,
                   files, created, exitStatus, success, extFail, lastOp>>
    /\ UNCHANGED splitVars

\* "[FATAL] No slides to render after filtering."
FilterEmpty ==
    /\ pc = "tts"
    /\ Len(audio_paths) = Len(slides)
    /\ FilterSlides(slides, audio_paths, 1, NoFiltered).fs = <<>>
    /\ Exit1
    /\ UNCHANGED <<scanned, indexCalled, data, slides, urlIdx, audio_paths, inflight,
                   filtered_slides, filtered_audio, filtered_src, created,
                   success, extFail, lastOp>>
    /\ UNCHANGED splitVars

-----------------------------------------------------------------------------
(* main: 7) per-slide clips, 8) concatenate, 9) write output *)

Durations == {50, 300}             \* audio durations, hundredths of a second

\* make_silence_clip returns None
make_silence_clip == None

\* AudioFileClip(path): raises on None and on a missing file; envOk is whether
\* the decoder reads an existing file
AudioFileClip(path, envOk) ==
    IF path = None \/ path \notin files.audio THEN "raise"
    ELSE IF ~envOk THEN "decode_error"
    ELSE "loaded"

\* create_slide_clip: "clip" when it returns, otherwise how it raises
create_slide_clip(audio_path, envOk, base_dur) ==
    LET audio_clip == AudioFileClip(audio_path, envOk)
        duration == base_dur + PADDING_PER_SLIDE
    IN  IF audio_clip # "loaded" THEN audio_clip
        ELSE IF base_dur < duration
             THEN IF AudioFileClip(make_silence_clip, TRUE) = "loaded" THEN "clip" ELSE "raise"
             ELSE "clip"

\* steps 7 to 9 and the finally block; k is the slide whose audio file the
\* decoder cannot read (0: none), encoded whether write_videofile succeeds
Render(k, base_dur, encoded) ==
    /\ pc = "render"
    /\ LET n == Len(filtered_slides)
           res == [j \in 1..n |-> create_slide_clip(filtered_audio[j], j # k, base_dur)]
           bad == {j \in 1..n : res[j] # "clip"}
           first == IF bad = {} THEN 0 ELSE CHOOSE j \in bad : \A i \in bad : j <= i
       IN  IF first # 0
           THEN /\ Exit1
                /\ extFail' = (extFail \/ res[first] = "decode_error")
                /\ lastOp' = IF res[first] = "decode_error"
                             THEN Tried("audio_load", first, TRUE, TRUE) ELSE lastOp
                /\ UNCHANGED <<created, success>>
           ELSE /\ lastOp' = Tried("write", 0, ~encoded, ~encoded)
                /\ IF encoded
                   THEN /\ files' = Cleanup([files EXCEPT !.video = @ + 1])
                        /\ created' = created \cup {"video"}
                        /\ success' = TRUE
                        /\ exitStatus' = 0
                        /\ pc' = "done"
                        /\ UNCHANGED extFail
                   ELSE /\ Exit1
                        /\ extFail' = TRUE
                        /\ UNCHANGED <<created, success>>
    /\ UNCHANGED <<scanned, indexCalled, data, slides, urlIdx, audio_paths, inflight,
                   filtered_slides, filtered_audio, filtered_src>>
    /\ UNCHANGED splitVars

-----------------------------------------------------------------------------
(* The program *)

\* main after os.makedirs(OUTPUT_FOLDER), about to call get_trending_stock;
\* files.video counts the videos this run has written under OUTPUT_FOLDER
Init ==
    /\ pc = "scan"
    /\ text = <<>>
    /\ title = NoTitle
    /\ approx_chars = SLIDE_BODY_CHAR_APPROX
    /\ depth = 0
    /\ cleaned = <<>>
    /\ MainIdle

Next ==
    \/ get_trending_stock
    \/ get_market_analysis_data
    \/ fetch_article_text
    \/ SplitReturn
    \/ SplitRecurse
    \/ SplitOverflow
    \/ AfterSplit
    \/ SplitRaised
    \/ download_background
    \/ SynthStart
    \/ synthesize_text_to_file
    \/ FilterKeeps
    \/ FilterEmpty
    \/ \E k \in 0..Len(filtered_slides), d \in Durations, e \in BOOLEAN : Render(k, d, e)

Spec == Init /\ [][Next]_vars

-----------------------------------------------------------------------------
(* Claims *)

\* C1: in every run in which a topic is found and every external call
\* succeeds, main writes exactly one video file, reports success and does not
\* exit with status 1.
C1_OneVideoWritten ==
    (pc = "done" /\ data.type # "none" /\ ~extFail)
        => (files.video = 1 /\ success /\ exitStatus # 1)

\* C2: the index technical summary is used only after every entry of the
\* watchlist was looked up and none yielded news; a lookup that raises is
\* skipped and the scan goes on with the next entry; when both selectors
\* return nothing the run exits with status 1 and no background image, slide
\* audio or video file has been created.
C2_IndexFallback ==
    /\ indexCalled => (scanned = Cardinality(WATCHLIST) /\ data.type # "news")
    /\ (lastOp.op = "lookup" /\ lastOp.failed)
          => /\ scanned = lastOp.target
             /\ pc = "scan" \/ scanned = Cardinality(WATCHLIST)
    /\ (pc = "done" /\ data.type = "none")
          => (indexCalled /\ exitStatus = 1 /\ created = {} /\ files = NoFiles)

C2_Witness ==
    pc = "done" /\ data.type = "none" /\ indexCalled /\ exitStatus = 1

\* C3 (as claimed): a failure of an external operation is treated as final
\* only after the same operation was attempted again.
C3_RetriedBeforeFinal == lastOp.final => lastOp.attempts >= 2

\* C3 (amended): no external operation is retried: a ticker lookup, the index
\* lookup, the article fetch, an image URL, an audio load and the video write
\* are attempted once and a failure is final at once; only a failed speech
\* synthesis is followed by one more synthesis (of "." to the same file), and
\* the failure of that second one is final.
C3_SingleAttempt ==
    /\ lastOp.op \notin {"none", "tts"}
          => (lastOp.attempts = 1 /\ (lastOp.failed => lastOp.final))
    /\ lastOp.op = "tts"
          => /\ lastOp.attempts \in {1, 2}
             /\ lastOp.final <=> (lastOp.failed /\ lastOp.attempts = 2)

C3_Witness ==
    lastOp.op = "tts" /\ lastOp.final /\ lastOp.attempts = 2 /\ pc = "tts"

\* C4: the speech syntheses run one at a time in slide order: at most one is
\* in flight, it is the one for the first slide without an audio entry (its
\* fallback included), and none is in flight once rendering has begun.
C4_OneSynthesisAtATime ==
    /\ Cardinality(inflight) <= 1
    /\ \A job \in inflight :
          /\ job.idx = Len(audio_paths)
          /\ pc = IF job.fallback THEN "tts_fb_await" ELSE "tts_await"
    /\ pc \in {"render", "done"} => inflight = {}

C4_Witness ==
    pc = "tts_fb_await" /\ \E job \in inflight : job.idx >= 1 /\ job.fallback

\* C5: every slide without a title that reaches rendering has a body of at
\* least MIN_SLIDE_CHARS characters.
C5_NoShortBodySlide ==
    \A j \in 1..Len(filtered_slides) :
        ~Truthy(filtered_slides[j].title)
            => StrLen(filtered_slides[j].body) >= MIN_SLIDE_CHARS

C5_Witness ==
    /\ pc = "render"
    /\ Len(filtered_slides) < Len(slides)
    /\ \E j \in 1..Len(filtered_slides) : ~Truthy(filtered_slides[j].title)

\* C6: called with a non-empty title and a text with a non-empty paragraph,
\* split_text_into_slides returns a list that begins with the title slide.
C6_TitleSlideFirst ==
    (pc = "split_returned" /\ Truthy(title) /\ Paragraphs(text) # <<>>)
        => (Len(cleaned) >= 1 /\ cleaned[1] = Slide(title, <<>>))

\* C7: audio_paths has one entry per slide, entry i being None or the file
\* slide_audio_i.mp3 synthesized for slide i; filtered_slides and
\* filtered_audio have the same length and the audio at each index is the
\* entry produced for the slide at that index.
C7_AudioPerSlide ==
    /\ Len(audio_paths) <= Len(slides)
    /\ pc \in {"render", "done"} => Len(audio_paths) = Len(slides)
    /\ \A i \in 1..Len(audio_paths) :
          /\ audio_paths[i] \in {None, i - 1}
          /\ (pc = "render" /\ audio_paths[i] # None) => audio_paths[i] \in files.audio
    /\ Len(filtered_slides) = Len(filtered_audio)
    /\ Len(filtered_slides) = Len(filtered_src)
    /\ \A j \in 1..Len(filtered_slides) :
          /\ filtered_src[j] \in 1..Len(slides)
          /\ filtered_slides[j] = slides[filtered_src[j]]
          /\ filtered_audio[j] = audio_paths[filtered_src[j]]

C7_Witness ==
    /\ pc = "render"
    /\ Len(filtered_slides) < Len(slides)
    /\ \E i \in 1..Len(audio_paths) : audio_paths[i] = None
    /\ \E j \in 1..Len(filtered_audio) : filtered_audio[j] # None

\* C8: for every text and title split_text_into_slides terminates and returns
\* at most 18 slides.
C8_ReturnsAtMost18 ==
    pc \in {"split_returned", "split_raised"}
        => (pc = "split_returned" /\ Len(cleaned) <= MAX_SLIDES)

\* the paragraphs of the bodies of a list of slides, in slide order
RECURSIVE BodyParagraphs(_)
BodyParagraphs(ss) ==
    IF ss = <<>> THEN <<>>
    ELSE Paragraphs(Head(ss).body) \o BodyParagraphs(Tail(ss))

\* C9: whenever split_text_into_slides returns, the paragraphs of the bodies
\* of the returned slides, read in slide order, are the non-empty paragraphs
\* of the text, each once and in their original order.
C9_NoTextLost ==
    pc = "split_returned" => BodyParagraphs(cleaned) = Paragraphs(text)

C9_Witness ==
    /\ pc = "split_returned"
    /\ depth > 0
    /\ Len(cleaned) >= 2
    /\ Len(Paragraphs(text)) > Len(cleaned)

====
